---- MODULE Spec2Model ----
(***************************************************************************)
(* Geocoding-linkt: the NRA locator pipeline of app.py (WKT parsing,       *)
(* polygon centroid, EPSG:3857 -> EPSG:4326 projection, nearest-NRA        *)
(* matching by haversine distance) as a state machine.                     *)
(*                                                                         *)
(* Representation.                                                         *)
(*  - A Python str is a sequence of one-character strings.                 *)
(*  - A CSV cell is [isStr, s]: pandas gives a missing cell as the float   *)
(*    NaN, which is not a str.                                             *)
(*  - A Python float read from text is [kind, n, d]: kind "fin" with the   *)
(*    exact value n/d in lowest terms, or "nan", "inf", "ninf".            *)
(*  - A geographic coordinate is an integer number of nano-degrees, and a  *)
(*    distance an integer number of micrometres (distance_km * 10^9).      *)
(***************************************************************************)
EXTENDS Integers, Sequences, FiniteSets, TLC

(* ------------------------------------------------------------------ *)
(* Python str methods                                                  *)
(* ------------------------------------------------------------------ *)

\* the value of v, handed to F: v is evaluated once, however often F uses it
With(v, F(_)) == CHOOSE r \in {F(x) : x \in {v}} : TRUE

\* str.strip() / str.split() whitespace (the characters of it the inputs use)
Whitespace == {" ", "\t"}

\* index of the first character of s at or after i that is not in cs
RECURSIVE first_outside(_, _, _)
first_outside(s, cs, i) ==
  IF i <= Len(s) /\ s[i] \in cs THEN first_outside(s, cs, i + 1) ELSE i

\* index of the last character of s at or before i that is not in cs
RECURSIVE last_outside(_, _, _)
last_outside(s, cs, i) ==
  IF i >= 1 /\ s[i] \in cs THEN last_outside(s, cs, i - 1) ELSE i

\* s.strip(chars): leading and trailing characters of the set cs removed
strip(s, cs) == SubSeq(s, first_outside(s, cs, 1), last_outside(s, cs, Len(s)))

startswith(s, p) == Len(s) >= Len(p) /\ SubSeq(s, 1, Len(p)) = p

endswith(s, p) == Len(s) >= Len(p) /\ SubSeq(s, Len(s) - Len(p) + 1, Len(s)) = p

\* s.split(sep) for a one-character sep, from index i with the current field
\* starting at index from: every field, the empty ones too
RECURSIVE split_sep(_, _, _, _)
split_sep(s, sep, i, from) ==
  IF i > Len(s) THEN <<SubSeq(s, from, Len(s))>>
  ELSE IF s[i] = sep THEN <<SubSeq(s, from, i - 1)>> \o split_sep(s, sep, i + 1, i + 1)
  ELSE split_sep(s, sep, i + 1, from)

\* s.split(), from index i with the current run starting at index from: the
\* maximal runs of non-whitespace characters
RECURSIVE split_ws(_, _, _)
split_ws(s, i, from) ==
  IF i > Len(s) THEN (IF from < i THEN <<SubSeq(s, from, Len(s))>> ELSE <<>>)
  ELSE IF s[i] \in Whitespace
       THEN (IF from < i THEN <<SubSeq(s, from, i - 1)>> ELSE <<>>) \o split_ws(s, i + 1, i + 1)
       ELSE split_ws(s, i + 1, from)

\* index of the first occurrence of character c in s, 0 when there is none
RECURSIVE find_char(_, _, _)
find_char(s, c, i) ==
  IF i > Len(s) THEN 0 ELSE IF s[i] = c THEN i ELSE find_char(s, c, i + 1)

\* str.lower() on the letters the inputs use
lower_char(c) ==
  CASE c = "A" -> "a" [] c = "B" -> "b" [] c = "C" -> "c" [] c = "E" -> "e"
    [] c = "F" -> "f" [] c = "I" -> "i" [] c = "N" -> "n" [] c = "O" -> "o"
    [] c = "P" -> "p" [] c = "R" -> "r" [] c = "T" -> "t" [] c = "Y" -> "y"
    [] OTHER -> c

lower(s) == [i \in 1..Len(s) |-> lower_char(s[i])]

(* ------------------------------------------------------------------ *)
(* Python float(text)                                                  *)
(* ------------------------------------------------------------------ *)

Digits == {"0", "1", "2", "3", "4", "5", "6", "7", "8", "9"}

DigitVal(c) ==
  CASE c = "0" -> 0 [] c = "1" -> 1 [] c = "2" -> 2 [] c = "3" -> 3 [] c = "4" -> 4
    [] c = "5" -> 5 [] c = "6" -> 6 [] c = "7" -> 7 [] c = "8" -> 8 [] c = "9" -> 9

\* the number a string of digits writes, from index i with acc read so far
RECURSIVE NatOf(_, _, _)
NatOf(s, i, acc) == IF i > Len(s) THEN acc ELSE NatOf(s, i + 1, 10 * acc + DigitVal(s[i]))

RECURSIVE Pow10(_)
Pow10(e) == IF e = 0 THEN 1 ELSE 10 * Pow10(e - 1)

Abs(a) == IF a < 0 THEN -a ELSE a

RECURSIVE GCD(_, _)
GCD(a, b) == IF b = 0 THEN a ELSE GCD(b, a % b)

\* the float n/d (d > 0), in lowest terms
Fin(n, d) ==
  LET g == GCD(Abs(n), d) IN [kind |-> "fin", n |-> n \div g, d |-> d \div g]

NaN == [kind |-> "nan", n |-> 0, d |-> 1]

PosInf == [kind |-> "inf", n |-> 0, d |-> 1]

NegInf == [kind |-> "ninf", n |-> 0, d |-> 1]

AllDigits(s) == \A i \in 1..Len(s) : s[i] \in Digits

\* an underscore of a numeral stands between two digits
grouping_ok(u) ==
  \A k \in 1..Len(u) :
    u[k] = "_" => k > 1 /\ k < Len(u) /\ u[k - 1] \in Digits /\ u[k + 1] \in Digits

ungroup(u) == SelectSeq(u, LAMBDA c : c # "_")

\* the mantissa "ip.fp" scaled by 10^e
float_decimal(mant, e, neg) ==
  LET dot == find_char(mant, ".", 1)
      ip  == IF dot = 0 THEN mant ELSE SubSeq(mant, 1, dot - 1)
      fp  == IF dot = 0 THEN <<>> ELSE SubSeq(mant, dot + 1, Len(mant))
  IN  IF AllDigits(ip) /\ AllDigits(fp) /\ Len(ip) + Len(fp) >= 1
        THEN With(NatOf(ip \o fp, 1, 0), LAMBDA mag :
               With(IF neg THEN -mag ELSE mag, LAMBDA sm :
                 [ok |-> TRUE,
                  v  |-> IF e >= 0 THEN Fin(sm * Pow10(e), Pow10(Len(fp)))
                                   ELSE Fin(sm, Pow10(Len(fp) - e))]))
        ELSE [ok |-> FALSE, v |-> NaN]

\* the exponent after "e": optional sign, at least one digit
float_exponent(mant, ex, neg) ==
  LET signed == ex # <<>> /\ Head(ex) \in {"+", "-"}
      ds     == IF signed THEN Tail(ex) ELSE ex
  IN  IF ds # <<>> /\ AllDigits(ds)
        THEN With(NatOf(ds, 1, 0), LAMBDA mag :
               float_decimal(mant, IF signed /\ Head(ex) = "-" THEN -mag ELSE mag, neg))
        ELSE [ok |-> FALSE, v |-> NaN]

\* float of an unsigned numeral u, negated when neg
float_unsigned(u, neg) ==
  LET lu == lower(u)
  IN  IF lu = <<"n","a","n">> THEN [ok |-> TRUE, v |-> NaN]
      ELSE IF lu \in {<<"i","n","f">>, <<"i","n","f","i","n","i","t","y">>}
        THEN [ok |-> TRUE, v |-> IF neg THEN NegInf ELSE PosInf]
      ELSE IF ~grouping_ok(u) THEN [ok |-> FALSE, v |-> NaN]
      ELSE With(ungroup(lu), LAMBDA t :
             With(find_char(t, "e", 1), LAMBDA epos :
               IF epos = 0 THEN float_decimal(t, 0, neg)
               ELSE float_exponent(SubSeq(t, 1, epos - 1), SubSeq(t, epos + 1, Len(t)), neg)))

\* float(s): [ok |-> FALSE] is ValueError. Grammar: optional surrounding
\* whitespace, optional sign, then nan, inf, infinity (any case) or a decimal
\* numeral: digits with at most one point, digits groupable by "_", and an
\* optional exponent.
PyFloat(s) ==
  With(strip(s, Whitespace), LAMBDA t :
    IF t # <<>> /\ Head(t) \in {"+", "-"}
    THEN With(Tail(t), LAMBDA u : float_unsigned(u, Head(t) = "-"))
    ELSE float_unsigned(t, FALSE))

(* ------------------------------------------------------------------ *)
(* app.py: WKT parsing                                                 *)
(* ------------------------------------------------------------------ *)

Parens == {"(", ")"}

\* None, and a returned pair (x, y)
NoPoint == [some |-> FALSE, x |-> NaN, y |-> NaN]

SomePoint(x, y) == [some |-> TRUE, x |-> x, y |-> y]

\* float_pair without the strip("()") of lines 35-36
float_pair_unstripped(parts) ==
  With(<<PyFloat(parts[1]), PyFloat(parts[2])>>, LAMBDA xy :
    [ok |-> xy[1].ok /\ xy[2].ok, x |-> xy[1].v, y |-> xy[2].v])

\* the two tokens of a pair, each stripped of parentheses and converted:
\* [ok |-> FALSE] when float raises ValueError
float_pair(parts) ==
  With(<<PyFloat(strip(parts[1], Parens)), PyFloat(strip(parts[2], Parens))>>, LAMBDA xy :
    [ok |-> xy[1].ok /\ xy[2].ok, x |-> xy[1].v, y |-> xy[2].v])

parse_point(cell) ==
  IF ~cell.isStr THEN NoPoint
  ELSE
    With(strip(cell.s, Whitespace), LAMBDA wkt_string :
      IF startswith(wkt_string, <<"P","O","I","N","T","(">>) /\ endswith(wkt_string, <<")">>)
      THEN With(strip(SubSeq(wkt_string, 7, Len(wkt_string) - 1), Whitespace), LAMBDA coords_str :
             With(split_ws(coords_str, 1, 1), LAMBDA parts :
               IF Len(parts) = 2
               THEN With(float_pair(parts), LAMBDA p :
                      IF p.ok THEN SomePoint(p.x, p.y) ELSE NoPoint)
               ELSE NoPoint))
      ELSE NoPoint)

\* one comma-separated pair of parse_polygon: ok is FALSE when the pair is
\* skipped, bad is TRUE when the skip printed a conversion error
polygon_pair(pair) ==
  With(split_ws(strip(pair, Whitespace), 1, 1), LAMBDA subparts :
    IF Len(subparts) = 2
    THEN With(float_pair(subparts), LAMBDA p :
           [ok |-> p.ok, bad |-> ~p.ok, x |-> p.x, y |-> p.y])
    ELSE [ok |-> FALSE, bad |-> FALSE, x |-> NaN, y |-> NaN])

\* polygon_geom_str without the strip() of line 53
polygon_geom_str_unstripped(wkt_string) ==
  With(find_char(wkt_string, ";", 1), LAMBDA semi :
    IF semi # 0 THEN SubSeq(wkt_string, semi + 1, Len(wkt_string)) ELSE wkt_string)

\* geom_str of parse_polygon: what follows the first ";", when there is one
polygon_geom_str(wkt_string) ==
  With(find_char(wkt_string, ";", 1), LAMBDA semi :
    IF semi # 0
    THEN strip(SubSeq(wkt_string, semi + 1, Len(wkt_string)), Whitespace)
    ELSE wkt_string)

\* coords_str of parse_polygon: [ok |-> FALSE] is the early "return []"
polygon_coords_str(cell) ==
  IF ~cell.isStr THEN [ok |-> FALSE, s |-> <<>>]
  ELSE
    With(strip(cell.s, Whitespace), LAMBDA wkt_string :
      With(polygon_geom_str(wkt_string), LAMBDA geom_str :
        IF startswith(geom_str, <<"P","O","L","Y","G","O","N","(","(">>) /\ endswith(geom_str, <<")",")">>)
        THEN [ok |-> TRUE, s |-> SubSeq(geom_str, 10, Len(geom_str) - 2)]
        ELSE [ok |-> FALSE, s |-> <<>>]))

\* the pairs of coords_str, each parsed
polygon_pairs(cell) ==
  With(polygon_coords_str(cell), LAMBDA c :
    IF c.ok
    THEN With(split_sep(c.s, ",", 1, 1), LAMBDA pairs :
           [k \in 1..Len(pairs) |-> polygon_pair(pairs[k])])
    ELSE <<>>)

RECURSIVE kept_pairs(_, _)
kept_pairs(parsed, k) ==
  IF k > Len(parsed) THEN <<>>
  ELSE (IF parsed[k].ok THEN << <<parsed[k].x, parsed[k].y>> >> ELSE <<>>)
         \o kept_pairs(parsed, k + 1)

\* the list of (x, y) pairs; <<>> is the empty list
parse_polygon(cell) ==
  With(polygon_pairs(cell), LAMBDA parsed : kept_pairs(parsed, 1))

\* how many "Erreur lors de la conversion en float" lines parse_polygon prints
parse_polygon_errors(cell) ==
  With(polygon_pairs(cell), LAMBDA parsed :
    Cardinality({k \in 1..Len(parsed) : parsed[k].bad}))

(* ------------------------------------------------------------------ *)
(* shapely Polygon(poly_raw).centroid and the pyproj transformer       *)
(* ------------------------------------------------------------------ *)

LCM(a, b) == (a \div GCD(a, b)) * b

\* a common denominator of the coordinates k.. of coords
RECURSIVE CommonDenFrom(_, _)
CommonDenFrom(coords, k) ==
  IF k > Len(coords) THEN 1
  ELSE LCM(LCM(coords[k][1].d, coords[k][2].d), CommonDenFrom(coords, k + 1))

CommonDen(coords) == CommonDenFrom(coords, 1)

RECURSIVE SumTo(_, _)
SumTo(f, n) == IF n = 0 THEN 0 ELSE f[n] + SumTo(f, n - 1)

Max(a, b) == IF a >= b THEN a ELSE b

\* the rational n/d for any d # 0
Rat(n, d) == IF d < 0 THEN Fin(-n, -d) ELSE Fin(n, d)

\* PolygonRaises for a ring that would need 4 coordinate tuples of its own
PolygonRaises_below_four(poly_raw) == Len(poly_raw) < 4

\* the number of coordinates of a ring of n once shapely has closed it: the
\* first coordinate is repeated at the end when the last one differs from it,
\* and always when n is 3
closed_length(n, is_closed) ==
  IF n = 0 THEN 0
  ELSE IF n = 3 \/ ~is_closed THEN n + 1
  ELSE n

\* Polygon(poly_raw) raises ValueError: a linear ring needs 4 coordinates once
\* closed, which one or two coordinate tuples do not give. Three tuples or
\* more never raise, the closed (0 0,10 10,0 0) included; neither does the
\* empty list, which is the empty polygon.
PolygonRaises(poly_raw) ==
  /\ Len(poly_raw) > 0
  /\ closed_length(Len(poly_raw), poly_raw[1] = poly_raw[Len(poly_raw)]) < 4

(* Natural numbers beyond 32 bits, for the lengths GEOS computes in double  *)
(* precision: limbs of four decimal digits, the least significant first.    *)

Limb == 10000

big_limb(a, k) == IF k <= Len(a) THEN a[k] ELSE 0

\* the limbs of the number with the digits s[k] (of any size or sign) from k on
RECURSIVE big_norm_from(_, _, _)
big_norm_from(s, k, carry) ==
  IF k > Len(s) /\ carry = 0 THEN <<>>
  ELSE <<(big_limb(s, k) + carry) % Limb>>
       \o big_norm_from(s, k + 1, (big_limb(s, k) + carry) \div Limb)

\* n * Limb^e
big_shifted(n, e) == big_norm_from([k \in 1..e |-> 0] \o <<n>>, 1, 0)

\* a <= b: they are equal, or a has the smaller limb where they differ highest
big_leq(a, b) ==
  LET D == {k \in 1..Max(Len(a), Len(b)) : big_limb(a, k) # big_limb(b, k)}
  IN  \A h \in D : (\A k \in D : k <= h) => big_limb(a, h) < big_limb(b, h)

big_add(a, b) ==
  big_norm_from([k \in 1..Max(Len(a), Len(b)) |-> big_limb(a, k) + big_limb(b, k)], 1, 0)

\* a - b for a >= b
big_sub(a, b) == big_norm_from([k \in 1..Len(a) |-> a[k] - big_limb(b, k)], 1, 0)

\* a * s for 0 <= s <= 10 * Limb
big_scale(a, s) == big_norm_from([k \in 1..Len(a) |-> a[k] * s], 1, 0)

\* one step of the long division by b: the limb a_k is brought down to the
\* remainder r, which gives a limb d of the quotient (its two leading digits,
\* then its two trailing ones) and the next remainder
divmod_step(a_k, b, r) ==
  With(<<a_k>> \o r, LAMBDA r1 :
    IF ~big_leq(b, r1) THEN [d |-> 0, r |-> r1]
    ELSE With(100 * Cardinality({d \in 1..99 : big_leq(big_scale(b, 100 * d), r1)}),
              LAMBDA hi :
         With(hi + Cardinality({d \in 1..99 : big_leq(big_scale(b, hi + d), r1)}),
              LAMBDA d : [d |-> d, r |-> big_sub(r1, big_scale(b, d))])))

\* long division, from the limb k of a down: [q, r] with a = q * b + r
RECURSIVE big_divmod_from(_, _, _, _, _)
big_divmod_from(a, b, k, q, r) ==
  IF k = 0 THEN [q |-> q, r |-> r]
  ELSE With(divmod_step(a[k], b, r), LAMBDA s :
         big_divmod_from(a, b, k - 1, <<s.d>> \o q, s.r))

big_divmod(a, b) == big_divmod_from(a, b, Len(a), <<>>, <<>>)

\* Newton's iteration down from x >= sqrt(a) to the integer square root
RECURSIVE big_sqrt_from(_, _)
big_sqrt_from(a, x) ==
  With(big_divmod(big_add(x, big_divmod(a, x).q), <<2>>).q, LAMBDA y :
    IF big_leq(x, y) THEN x ELSE big_sqrt_from(a, y))

\* the iteration starts above the square root of the one or two leading limbs
big_sqrt(a) ==
  LET n    == Len(a)
      top  == IF n % 2 = 1 THEN a[n] ELSE a[n] * Limb + a[n - 1]
      root == Cardinality({x \in 1..Limb : x * x <= top})
  IN  big_sqrt_from(a, big_shifted(root + 1, (n - 1) \div 2))

\* one step of the continued fraction of a/b after the convergents h2/k2 and
\* h1/k1: the next convergent h/k and the rest b/(a mod b), or a stop when a
\* term of the next convergent would reach Limb^2
convergent_step(a, b, h1, k1, h2, k2) ==
  LET fits(t, x1, x2) == t = 0 \/ x1 = 0 \/ t <= (Limb * Limb - 1 - x2) \div x1
  IN  With(big_divmod(a, b), LAMBDA qr :
        IF ~big_leq(qr.q, <<Limb - 1, Limb - 1>>) THEN [stop |-> TRUE]
        ELSE With(big_limb(qr.q, 1) + Limb * big_limb(qr.q, 2), LAMBDA t :
               IF fits(t, h1, h2) /\ fits(t, k1, k2)
               THEN [stop |-> FALSE, a |-> b, b |-> qr.r,
                     h |-> t * h1 + h2, k |-> t * k1 + k2]
               ELSE [stop |-> TRUE]))

\* the continued fraction of a/b, from the convergents h2/k2 and h1/k1 on: the
\* last convergent <<h, k>> with terms below Limb^2. It is a/b itself when
\* that has such terms in lowest terms.
RECURSIVE convergent_from(_, _, _, _, _, _)
convergent_from(a, b, h1, k1, h2, k2) ==
  IF big_leq(b, <<>>) THEN <<h1, k1>>
  ELSE With(convergent_step(a, b, h1, k1, h2, k2), LAMBDA s :
         IF s.stop THEN <<h1, k1>>
         ELSE convergent_from(s.a, s.b, s.h, s.k, h1, k1))

\* lengths are kept to LengthLimbs limbs after the point: the 16 significant
\* decimal digits of a double
LengthLimbs == 4

\* the length of the segment (dx, dy), in units of Limb^-LengthLimbs, rounded down
segment_length(dx, dy) ==
  IF dx = 0 /\ dy = 0 THEN <<>>
  ELSE big_sqrt(big_shifted(dx * dx + dy * dy, 2 * LengthLimbs))

\* the sum of |M[k]| * W[k] over the k in 1..n with M[k] of the given sign
RECURSIVE weighted_sum_to(_, _, _, _)
weighted_sum_to(M, W, n, sign) ==
  IF n = 0 THEN <<>>
  ELSE IF M[n] * sign > 0
  THEN big_add(big_scale(W[n], Abs(M[n])), weighted_sum_to(M, W, n - 1, sign))
  ELSE weighted_sum_to(M, W, n - 1, sign)

\* one coordinate of the length-weighted centroid: the sum of the segments'
\* midpoints M[k] / (2 L), weighted by their lengths W[k], over the sum of the
\* lengths; the fraction with terms below Limb^2 nearest to it
line_centroid(M, W, n, L) ==
  With(<<weighted_sum_to(M, W, n, 1), weighted_sum_to(M, W, n, -1),
         big_scale(weighted_sum_to([k \in 1..n |-> 1], W, n, 1), 2 * L)>>, LAMBDA t :
    IF big_leq(t[2], t[1])
    THEN With(convergent_from(big_sub(t[1], t[2]), t[3], 1, 0, 0, 1),
              LAMBDA f : Fin(f[1], f[2]))
    ELSE With(convergent_from(big_sub(t[2], t[1]), t[3], 1, 0, 0, 1),
              LAMBDA f : Fin(-f[1], f[2])))

\* the centroid of the ring with integer vertices (X[i], Y[i]) / L, as GEOS
\* computes it: the empty point, whose coordinates read nan, for no vertex;
\* "ValueError" for a ring of fewer than 4 coordinates once closed (one or two
\* vertices); else the area-weighted centroid; for a ring of zero area the
\* centroid of its segments weighted by their Euclidean lengths; for a ring of
\* zero length its point. The segments of a flat ring (all its segments
\* parallel) are weighted by max(|dx|, |dy|), which is proportional to their
\* lengths, so that the result is exact; the lengths of any other ring of zero
\* area are square roots, taken to LengthLimbs limbs.
ring_centroid(X, Y, n, L) ==
  LET nx(k) == (k % n) + 1
      flat  == \A a, b \in 1..n :
                 (X[nx(a)] - X[a]) * (Y[nx(b)] - Y[b]) = (X[nx(b)] - X[b]) * (Y[nx(a)] - Y[a])
  IN  IF n = 0 THEN <<NaN, NaN>>
      ELSE IF closed_length(n, X[1] = X[n] /\ Y[1] = Y[n]) < 4 THEN "ValueError"
      ELSE
      With([k \in 1..n |-> X[k] * Y[nx(k)] - X[nx(k)] * Y[k]], LAMBDA cross :
      With(SumTo(cross, n), LAMBDA area :
        IF area # 0
        THEN <<Rat(SumTo([k \in 1..n |-> (X[k] + X[nx(k)]) * cross[k]], n), 3 * area * L),
               Rat(SumTo([k \in 1..n |-> (Y[k] + Y[nx(k)]) * cross[k]], n), 3 * area * L)>>
        ELSE IF flat
        THEN With([k \in 1..n |-> Max(Abs(X[nx(k)] - X[k]), Abs(Y[nx(k)] - Y[k]))], LAMBDA seg :
             With(SumTo(seg, n), LAMBDA length :
               IF length # 0
               THEN <<Rat(SumTo([k \in 1..n |-> (X[k] + X[nx(k)]) * seg[k]], n), 2 * length * L),
                      Rat(SumTo([k \in 1..n |-> (Y[k] + Y[nx(k)]) * seg[k]], n), 2 * length * L)>>
               ELSE <<Rat(X[1], L), Rat(Y[1], L)>>))
        ELSE With([k \in 1..n |-> segment_length(X[nx(k)] - X[k], Y[nx(k)] - Y[k])], LAMBDA W :
               <<line_centroid([k \in 1..n |-> X[k] + X[nx(k)]], W, n, L),
                 line_centroid([k \in 1..n |-> Y[k] + Y[nx(k)]], W, n, L)>>)))

\* Polygon(poly_raw).centroid as (centroid.x, centroid.y) for a non-empty list
\* of finite coordinate tuples, or "ValueError" when Polygon(poly_raw) raises
polygon_centroid(poly_raw) ==
  With(CommonDen(poly_raw), LAMBDA L :
    With(<<[k \in 1..Len(poly_raw) |-> poly_raw[k][1].n * (L \div poly_raw[k][1].d)],
           [k \in 1..Len(poly_raw) |-> poly_raw[k][2].n * (L \div poly_raw[k][2].d)]>>,
         LAMBDA XY : ring_centroid(XY[1], XY[2], Len(poly_raw), L)))

\* EPSG:3857 -> EPSG:4326 within some hundred metres of the origin, where the
\* projection is linear to within 10^-9 degree: 8983.153 nano-degrees a metre
NanoDegPerKm == 8983153

MetresPerKm == 1000

\* one axis of the transformation: metres n/d to nano-degrees, rounded
to_degrees(v) ==
  LET b == MetresPerKm * v.d IN (NanoDegPerKm * v.n + (b \div 2)) \div b

\* transformer.transform(x, y) with always_xy: (lon, lat)
transformer_transform(x, y) == <<to_degrees(x), to_degrees(y)>>

\* (lat, lon)
transform_point(x, y) ==
  LET ll == transformer_transform(x, y) IN <<ll[2], ll[1]>>

\* the list of [lat, lon]
transform_coords(coords) ==
  [k \in 1..Len(coords) |->
     LET ll == transformer_transform(coords[k][1], coords[k][2]) IN <<ll[2], ll[1]>>]

get_polygon_color(tech) ==
  IF ~tech.isStr THEN "blue"
  ELSE With(lower(strip(tech.s, Whitespace)), LAMBDA t :
         IF t = <<"c","o","p","p","e","r">> THEN "red"
         ELSE IF t = <<"f","i","b","r","e">> THEN "green"
         ELSE "blue")

(* ------------------------------------------------------------------ *)
(* haversine_distance                                                  *)
(* ------------------------------------------------------------------ *)

\* haversine_distance(lat1, lon1, lat2, lon2) * 10^9, rounded, for the
\* coordinates (in nano-degrees) the inputs below can produce: R = 6371 and
\* the atan2 form of the source, evaluated in double precision
HavTable ==
  (<<20000, 20000, 8983, 71865>> :> 5895798)
  @@ (<<20000, 20000, 20961, 23955>> :> 452572)
  @@ (<<20000, 20000, 26949, 17966>> :> 805114)
  @@ (<<20000, 20000, 29944, 59888>> :> 4571093)
  @@ (<<20000, 20000, 44916, 44916>> :> 3918125)
  @@ (<<44916, 44916, 8983, 71865>> :> 4994409)
  @@ (<<44916, 44916, 20961, 23955>> :> 3539433)
  @@ (<<44916, 44916, 26949, 17966>> :> 3601610)
  @@ (<<44916, 44916, 29944, 59888>> :> 2354398)
  @@ (<<44916, 44916, 44916, 44916>> :> 0)

haversine_distance(lat1, lon1, lat2, lon2) == HavTable[<<lat1, lon1, lat2, lon2>>]

(* ------------------------------------------------------------------ *)
(* Inputs: the two CSV files                                           *)
(* ------------------------------------------------------------------ *)

MaxRows == 2

MaxQueries == 2

Str(s) == [isStr |-> TRUE, s |-> s]

Missing == [isStr |-> FALSE, s |-> <<>>]

\* rows of "input/Localisations NRA NRO.csv" (the_geom, osm_original_geom, telecom-medium)
NraRowSquare ==
  [the_geom |-> Str(<<"P","O","I","N","T","(","2"," ","3",")">>),
   osm_original_geom |-> Str(<<"P","O","L","Y","G","O","N","(","(","0"," ","0",",","1","0"," ","0",",","1","0"," ","1","0",",","0"," ","1","0",")",")">>),
   medium |-> Str(<<"c","o","p","p","e","r">>)]

NraRowSrid ==
  [the_geom |-> Missing,
   osm_original_geom |-> Str(<<"S","R","I","D","=","3","8","5","7",";","P","O","L","Y","G","O","N","(","(","0"," ","0",",","6"," ","0",",","6"," ","3",",","0"," ","6",",","0"," ","0",")",")">>),
   medium |-> Str(<<" ","F","i","b","r","e"," ">>)]

NraRowPointOnly ==
  [the_geom |-> Str(<<"P","O","I","N","T","(","2"," ","3",")">>),
   osm_original_geom |-> Str(<<>>),
   medium |-> Missing]

NraRowTwoVertices ==
  [the_geom |-> Str(<<"P","O","I","N","T","(","8"," ","1",")">>),
   osm_original_geom |-> Str(<<"P","O","L","Y","G","O","N","(","(","0"," ","0",",","1","0"," ","1","0",")",")">>),
   medium |-> Str(<<"c","o","p","p","e","r">>)]

NraRowTwoVerticesNoPoint ==
  [the_geom |-> Str(<<"P","O","I","N","T"," ","(","8"," ","1",")">>),
   osm_original_geom |-> Str(<<"P","O","L","Y","G","O","N","(","(","0"," ","0",",","1","0"," ","1","0",")",")">>),
   medium |-> Str(<<"r","a","d","i","o">>)]

NraRowCollinear ==
  [the_geom |-> Str(<<"P","O","I","N","T","(","8"," ","1",")">>),
   osm_original_geom |-> Str(<<"P","O","L","Y","G","O","N","(","(","0"," ","0",",","4"," ","4",",","1","0"," ","1","0",")",")">>),
   medium |-> Str(<<"f","i","b","r","e">>)]

NraRowClosedPair ==
  [the_geom |-> Str(<<"P","O","I","N","T","(","2"," ","3",")">>),
   osm_original_geom |-> Str(<<"P","O","L","Y","G","O","N","(","(","0"," ","0",",","1","0"," ","1","0",",","0"," ","0",")",")">>),
   medium |-> Str(<<"f","i","b","r","e">>)]

NraRowNothing ==
  [the_geom |-> Str(<<>>),
   osm_original_geom |-> Missing,
   medium |-> Missing]

NraRowBadPair ==
  [the_geom |-> Str(<<"P","O","I","N","T","(","8"," ","1",")">>),
   osm_original_geom |-> Str(<<"P","O","L","Y","G","O","N","(","(","0"," ","0",",","x"," ","0",",","1","0"," ","0",",","1","0"," ","1","0",")",")">>),
   medium |-> Str(<<"c","o","p","p","e","r">>)]

NraRows ==
  {NraRowSquare, NraRowSrid, NraRowPointOnly, NraRowTwoVertices,
   NraRowTwoVerticesNoPoint, NraRowCollinear, NraRowClosedPair, NraRowNothing,
   NraRowBadPair}

\* rows of "input/fiab.csv" (Latitude, Longitude, Libelle)
GpsRowPlain ==
  [Latitude |-> Str(<<"0",".","0","0","0","0","2">>), Longitude |-> Str(<<"0",".","0","0","0","0","2">>), Libelle |-> Str(<<"A">>)]

GpsRowOnAnchor ==
  [Latitude |-> Str(<<"0",".","0","0","0","0","4","4","9","1","6">>), Longitude |-> Str(<<"0",".","0","0","0","0","4","4","9","1","6">>), Libelle |-> Missing]

GpsRowText ==
  [Latitude |-> Str(<<"n","o","t","-","a","-","n","u","m","b","e","r">>), Longitude |-> Str(<<"0",".","0","0","0","0","2">>), Libelle |-> Str(<<"B">>)]

GpsRowMissing ==
  [Latitude |-> Str(<<"0",".","0","0","0","0","2">>), Longitude |-> Missing, Libelle |-> Str(<<"C">>)]

GpsRowNan ==
  [Latitude |-> Str(<<"n","a","n">>), Longitude |-> Str(<<"0",".","0","0","0","0","2">>), Libelle |-> Missing]

GpsRowInf ==
  [Latitude |-> Str(<<"i","n","f">>), Longitude |-> Str(<<"0",".","0","0","0","0","2">>), Libelle |-> Str(<<"D">>)]

GpsRowNegInf ==
  [Latitude |-> Str(<<"0",".","0","0","0","0","2">>), Longitude |-> Str(<<"-","i","n","f">>), Libelle |-> Str(<<"E">>)]

GpsRows ==
  {GpsRowPlain, GpsRowOnAnchor, GpsRowText, GpsRowMissing, GpsRowNan, GpsRowInf, GpsRowNegInf}

RECURSIVE SeqsUpTo(_, _)
SeqsUpTo(S, n) ==
  IF n = 0 THEN {<<>>}
  ELSE LET shorter == SeqsUpTo(S, n - 1)
       IN  shorter \cup {Append(s, x) : s \in {t \in shorter : Len(t) = n - 1}, x \in S}

\* what pd.read_csv finds: no readable file, a table without the required
\* columns, or a table of rows
NraFiles ==
  {[status |-> "unreadable", rows |-> <<>>], [status |-> "nocolumn", rows |-> <<>>]}
    \cup {[status |-> "ok", rows |-> r] : r \in SeqsUpTo(NraRows, MaxRows)}

GpsFiles ==
  {[status |-> "unreadable", rows |-> <<>>], [status |-> "nocolumn", rows |-> <<>>]}
    \cup {[status |-> "ok", rows |-> r] : r \in SeqsUpTo(GpsRows, MaxQueries)}

\* row k of the NRA table: its FID is its row number
nra_row(rows, k) ==
  [FID |-> k, the_geom |-> rows[k].the_geom,
   osm_original_geom |-> rows[k].osm_original_geom, medium |-> rows[k].medium]

(* ------------------------------------------------------------------ *)
(* State                                                               *)
(* ------------------------------------------------------------------ *)

VARIABLES
  pc,               \* where main is: read_nra, build, display, gps, match, export, save, done, crashed
  df,               \* the NRA table
  i,                \* row of df the current loop is at
  nra_points,       \* the anchors: [lat, lon, fid]
  m,                \* the folium map: its markers in order
  df_gps,           \* the GPS table
  j,                \* row of df_gps the matching loop is at
  results,          \* the match records
  csv_written,      \* output_nearest_nra.csv exists
  csv_rows,         \* its records
  map_saved,        \* map_all.html exists
  stdout,           \* what was printed
  transform_calls,  \* every transformer.transform call: [phase, fid, x, y]
  centroid_calls,   \* every Polygon(...).centroid computation: [phase, fid, coords]
  haversine_calls,  \* every haversine_distance call: [idx, k]
  error,            \* the exception that ended the run, "" when none
  wkt,              \* the text a parser is applied to on its own, in fragments
  parsed,           \* what the parser returned for it
  geo_df,           \* main.py: the table process_csv read, coordinates made numeric
  geo_i,            \* row of geo_df the loop of process_csv is at
  cache,            \* the dict reverse_geocode is handed: (lat, lon) -> address
  requests_sent,    \* every session.get made: [service, key, answer, result]
  adresse_postale,  \* the column "Adresse Postale", row by row
  geo_saved         \* the output CSV of process_csv exists

vars ==
  <<pc, df, i, nra_points, m, df_gps, j, results, csv_written, csv_rows, map_saved,
    stdout, transform_calls, centroid_calls, haversine_calls, error, wkt, parsed,
    geo_df, geo_i, cache, requests_sent, adresse_postale, geo_saved>>

geocode_vars == <<geo_df, geo_i, cache, requests_sent, adresse_postale, geo_saved>>

\* no text under test
NoCell == [kind |-> "none"]

Init ==
  /\ pc = "read_nra"
  /\ df = <<>>
  /\ i = 1
  /\ nra_points = <<>>
  /\ m = <<>>
  /\ df_gps = <<>>
  /\ j = 1
  /\ results = <<>>
  /\ csv_written = FALSE
  /\ csv_rows = <<>>
  /\ map_saved = FALSE
  /\ stdout = <<>>
  /\ transform_calls = <<>>
  /\ centroid_calls = <<>>
  /\ haversine_calls = <<>>
  /\ error = ""
  /\ wkt = NoCell
  /\ parsed = NoCell
  /\ geo_df = <<>>
  /\ geo_i = 1
  /\ cache = <<>>
  /\ requests_sent = <<>>
  /\ adresse_postale = <<>>
  /\ geo_saved = FALSE

(* ------------------------------------------------------------------ *)
(* app.main: table construction                                        *)
(* ------------------------------------------------------------------ *)

Anchor(ll, fid) == [lat |-> ll[1], lon |-> ll[2], fid |-> fid]

Said(msg, id) == [msg |-> msg, id |-> id]

Marker(kind, id, locs, color) == [kind |-> kind, id |-> id, locs |-> locs, color |-> color]

RECURSIVE Repeat(_, _)
Repeat(x, n) == IF n = 0 THEN <<>> ELSE <<x>> \o Repeat(x, n - 1)

\* point_anchor with the append of lines 216 and 221 left out
point_anchor_dropped(row, phase) == [anchors |-> <<>>, transforms |-> <<>>]

\* the fallback of lines 213-216 and 218-221: the row's raw point, projected
point_anchor(row, phase) ==
  With(parse_point(row.the_geom), LAMBDA pt :
    IF pt.some
    THEN [anchors    |-> <<Anchor(transform_point(pt.x, pt.y), row.FID)>>,
          transforms |-> <<[phase |-> phase, fid |-> row.FID, x |-> pt.x, y |-> pt.y]>>]
    ELSE [anchors |-> <<>>, transforms |-> <<>>])

\* centroid_anchor in the other order: every vertex is projected, one
\* transformer call each, and the centroid is taken of the projected ring. The
\* projection being linear here, that centroid is the projection of the
\* centroid of poly_raw.
centroid_anchor_projected(row, poly_raw, phase) ==
  With(<<transform_coords(poly_raw), polygon_centroid(poly_raw)>>, LAMBDA tc :
    [anchors    |-> <<Anchor(transform_point(tc[2][1], tc[2][2]), row.FID)>>,
     transforms |-> [k \in 1..Len(poly_raw) |->
                       [phase |-> phase, fid |-> row.FID,
                        x |-> poly_raw[k][1], y |-> poly_raw[k][2]]],
     centroids  |-> <<[phase |-> phase, fid |-> row.FID,
                       coords |-> [k \in 1..Len(poly_raw) |->
                                     <<Fin(tc[1][k][2], 1), Fin(tc[1][k][1], 1)>>]]>>])

\* the centroid of lines 207-210: computed on poly_raw, then projected
centroid_anchor(row, poly_raw, phase) ==
  With(polygon_centroid(poly_raw), LAMBDA centroid :
    [anchors    |-> <<Anchor(transform_point(centroid[1], centroid[2]), row.FID)>>,
     transforms |-> <<[phase |-> phase, fid |-> row.FID, x |-> centroid[1], y |-> centroid[2]]>>,
     centroids  |-> <<[phase |-> phase, fid |-> row.FID, coords |-> poly_raw]>>])

\* the "Erreur lors de la conversion en float" lines of one parse_polygon call
conversion_lines(row) ==
  Repeat(Said("conversion", row.FID), parse_polygon_errors(row.osm_original_geom))

\* one pass of the loop of lines 202-221
build_row(row) ==
  With(<<parse_polygon(row.osm_original_geom), conversion_lines(row)>>, LAMBDA pp :
    IF pp[1] # <<>>
    THEN IF ~PolygonRaises(pp[1])
         THEN With(centroid_anchor(row, pp[1], "build"), LAMBDA c :
                [anchors |-> c.anchors, transforms |-> c.transforms,
                 centroids |-> c.centroids, said |-> pp[2]])
         ELSE With(point_anchor(row, "build"), LAMBDA p :
                [anchors |-> p.anchors, transforms |-> p.transforms,
                 centroids |-> <<>>, said |-> Append(pp[2], Said("centroid", row.FID))])
    ELSE With(point_anchor(row, "build"), LAMBDA p :
           [anchors |-> p.anchors, transforms |-> p.transforms,
            centroids |-> <<>>, said |-> pp[2]]))

\* table_is_empty with the test of line 222 left out
table_is_empty_unchecked(points) == FALSE

\* "if not nra_points" of line 222
table_is_empty(points) == points = <<>>

\* line 189 and lines 192-195
ReadNra ==
  /\ UNCHANGED <<wkt, parsed, geocode_vars>>
  /\ pc = "read_nra"
  /\ \E file \in NraFiles :
       IF file.status = "unreadable"
       THEN /\ pc' = "crashed"
            /\ error' = "read_csv"
            /\ UNCHANGED <<df, stdout>>
       ELSE IF file.status = "nocolumn"
       THEN /\ pc' = "done"
            /\ stdout' = Append(stdout, Said("nocolumn", 0))
            /\ UNCHANGED <<df, error>>
       ELSE /\ pc' = "build"
            /\ df' = [k \in 1..Len(file.rows) |-> nra_row(file.rows, k)]
            /\ UNCHANGED <<stdout, error>>
  /\ UNCHANGED <<i, nra_points, m, df_gps, j, results, csv_written, csv_rows, map_saved,
                 transform_calls, centroid_calls, haversine_calls>>

\* lines 202-221, one row
BuildRow ==
  /\ UNCHANGED <<wkt, parsed, geocode_vars>>
  /\ pc = "build"
  /\ i <= Len(df)
  /\ \E b \in {build_row(df[i])} :
         /\ nra_points' = nra_points \o b.anchors
         /\ transform_calls' = transform_calls \o b.transforms
         /\ centroid_calls' = centroid_calls \o b.centroids
         /\ stdout' = stdout \o b.said
  /\ i' = i + 1
  /\ UNCHANGED <<pc, df, m, df_gps, j, results, csv_written, csv_rows, map_saved,
                 haversine_calls, error>>

\* lines 222-228: the table is complete
CheckTable ==
  /\ UNCHANGED <<wkt, parsed, geocode_vars>>
  /\ pc = "build"
  /\ i > Len(df)
  /\ IF table_is_empty(nra_points)
     THEN /\ pc' = "done"
          /\ stdout' = Append(stdout, Said("novalid", 0))
          /\ UNCHANGED <<m, error>>
     ELSE IF Len(nra_points) = 0
     THEN \* nra_points[0] of line 227 raises IndexError
          /\ pc' = "crashed"
          /\ error' = "IndexError"
          /\ UNCHANGED <<m, stdout>>
     ELSE /\ pc' = "display"
          /\ m' = <<Marker("map", 0, <<<<nra_points[1].lat, nra_points[1].lon>>>>, "")>>
          /\ UNCHANGED <<stdout, error>>
  /\ i' = 1
  /\ UNCHANGED <<df, nra_points, df_gps, j, results, csv_written, csv_rows, map_saved,
                 transform_calls, centroid_calls, haversine_calls>>

(* ------------------------------------------------------------------ *)
(* app.main: the map                                                   *)
(* ------------------------------------------------------------------ *)

\* lines 233-245: the marker of the row's point
display_point(row) ==
  With(parse_point(row.the_geom), LAMBDA pt :
    IF pt.some
    THEN [markers    |-> <<Marker("nra_point", row.FID, <<transform_point(pt.x, pt.y)>>, "black")>>,
          transforms |-> <<[phase |-> "display", fid |-> row.FID, x |-> pt.x, y |-> pt.y]>>]
    ELSE [markers |-> <<>>, transforms |-> <<>>])

\* lines 247-274: the outline of the row's polygon and the marker of its
\* centroid; were Polygon(poly_raw) to raise, the outline would stay and the
\* error be printed (with more than 2 coordinate tuples it does not raise)
display_polygon(row) ==
  With(parse_polygon(row.osm_original_geom), LAMBDA poly_raw :
    IF Len(poly_raw) > 2
    THEN IF ~PolygonRaises(poly_raw)
         THEN With(polygon_centroid(poly_raw), LAMBDA centroid :
           [markers |->
              <<Marker("polygon", row.FID, transform_coords(poly_raw),
                       get_polygon_color(row.medium)),
                Marker("centroid", row.FID,
                       <<transform_point(centroid[1], centroid[2])>>, "orange")>>,
            transforms |->
              [k \in 1..Len(poly_raw) |->
                 [phase |-> "display", fid |-> row.FID,
                  x |-> poly_raw[k][1], y |-> poly_raw[k][2]]]
              \o <<[phase |-> "display", fid |-> row.FID, x |-> centroid[1], y |-> centroid[2]]>>,
            centroids |-> <<[phase |-> "display", fid |-> row.FID, coords |-> poly_raw]>>,
            said |-> <<>>])
         ELSE [markers |->
                 <<Marker("polygon", row.FID, transform_coords(poly_raw),
                          get_polygon_color(row.medium))>>,
               transforms |->
                 [k \in 1..Len(poly_raw) |->
                    [phase |-> "display", fid |-> row.FID,
                     x |-> poly_raw[k][1], y |-> poly_raw[k][2]]],
               centroids |-> <<>>,
               said |-> <<Said("centroid_display", row.FID)>>]
    ELSE [markers |-> <<>>,
          transforms |->
            [k \in 1..Len(poly_raw) |->
               [phase |-> "display", fid |-> row.FID,
                x |-> poly_raw[k][1], y |-> poly_raw[k][2]]],
          centroids |-> <<>>,
          said |-> <<>>])

\* one pass of the loop of lines 231-274
display_row(row) ==
  With(<<display_point(row), display_polygon(row)>>, LAMBDA d :
    [markers    |-> d[1].markers \o d[2].markers,
     transforms |-> d[1].transforms \o d[2].transforms,
     centroids  |-> d[2].centroids,
     said       |-> conversion_lines(row) \o d[2].said])

\* lines 231-274, one row
DisplayRow ==
  /\ UNCHANGED <<wkt, parsed, geocode_vars>>
  /\ pc = "display"
  /\ i <= Len(df)
  /\ \E d \in {display_row(df[i])} :
         /\ m' = m \o d.markers
         /\ transform_calls' = transform_calls \o d.transforms
         /\ centroid_calls' = centroid_calls \o d.centroids
         /\ stdout' = stdout \o d.said
  /\ i' = i + 1
  /\ UNCHANGED <<pc, df, nra_points, df_gps, j, results, csv_written, csv_rows, map_saved,
                 haversine_calls, error>>

\* lines 123-132: process_and_add_gps_points reads the GPS file
ReadGps ==
  /\ UNCHANGED <<wkt, parsed, geocode_vars>>
  /\ pc = "display"
  /\ i > Len(df)
  /\ \E file \in GpsFiles :
       IF file.status = "ok"
       THEN /\ pc' = "match"
            /\ df_gps' = file.rows
            /\ stdout' = stdout
       ELSE /\ pc' = "export"
            /\ df_gps' = df_gps
            /\ stdout' = Append(stdout, Said(file.status, 0))
  /\ j' = 1
  /\ UNCHANGED <<df, i, nra_points, m, results, csv_written, csv_rows, map_saved,
                 transform_calls, centroid_calls, haversine_calls, error>>

(* ------------------------------------------------------------------ *)
(* process_and_add_gps_points: the matching loop                       *)
(* ------------------------------------------------------------------ *)

\* float(row["Latitude"]): a missing cell is already the float NaN
cell_float(cell) == IF cell.isStr THEN PyFloat(cell.s) ELSE [ok |-> TRUE, v |-> NaN]

\* a finite float of degrees, in nano-degrees
Nano == Pow10(9)

nano(v) == v.n * (Nano \div v.d)

\* closer with the comparison turned round
closer_farther(d, min_distance) == d > min_distance

\* closer with "<=": the last of several nearest anchors wins
closer_or_equal(d, min_distance) == d <= min_distance

\* "d < min_distance" of line 150
closer(d, min_distance) == d < min_distance

\* lines 146-152 after the anchors 1..k: none is "min_distance is None", and
\* closest the index in nra_points of closest_nra
RECURSIVE scan(_, _, _, _)
scan(lat, lon, points, k) ==
  IF k = 0 THEN [none |-> TRUE, min_distance |-> 0, closest |-> 0]
  ELSE With(scan(lat, lon, points, k - 1), LAMBDA prev :
       With(haversine_distance(lat, lon, points[k].lat, points[k].lon), LAMBDA d :
         IF prev.none \/ closer(d, prev.min_distance)
         THEN [none |-> FALSE, min_distance |-> d, closest |-> k]
         ELSE prev))

\* pd.isna(libelle) -> ""
libelle_of(row) == IF row.Libelle.isStr THEN row.Libelle.s ELSE <<>>

NoRecord == <<>>

\* one pass of the loop of lines 134-180 for row idx: what it prints, the
\* haversine_distance calls it makes, and either "skip" (continue), "raise"
\* (an exception leaves the function) or "record"
match_row(idx, row, points) ==
  With(<<cell_float(row.Latitude), cell_float(row.Longitude)>>, LAMBDA ll :
    IF ~ll[1].ok \/ ~ll[2].ok
    THEN [kind |-> "skip", said |-> <<Said("conversion_gps", idx)>>, calls |-> <<>>,
          error |-> "", records |-> NoRecord, markers |-> <<>>]
    ELSE IF ll[1].v.kind = "nan" \/ ll[2].v.kind = "nan"
    THEN [kind |-> "skip", said |-> <<Said("nan_gps", idx)>>, calls |-> <<>>,
          error |-> "", records |-> NoRecord, markers |-> <<>>]
    ELSE IF points = <<>>
    THEN \* closest_nra is None: closest_nra[2] of line 154 raises TypeError
         [kind |-> "raise", said |-> <<>>, calls |-> <<>>,
          error |-> "TypeError", records |-> NoRecord, markers |-> <<>>]
    ELSE IF ll[1].v.kind # "fin" \/ ll[2].v.kind # "fin"
    THEN \* math.sin of an infinity in the first haversine_distance call
         [kind |-> "raise", said |-> <<>>, calls |-> <<[idx |-> idx, k |-> 1]>>,
          error |-> "ValueError", records |-> NoRecord, markers |-> <<>>]
    ELSE With(<<nano(ll[1].v), nano(ll[2].v)>>, LAMBDA q :
         With(scan(q[1], q[2], points, Len(points)), LAMBDA s :
           [kind |-> "record", said |-> <<>>,
            calls |-> [k \in 1..Len(points) |-> [idx |-> idx, k |-> k]],
            error |-> "",
            records |-> <<[fiab_index |-> idx, fiab_lat |-> q[1], fiab_lon |-> q[2],
                           Libelle |-> libelle_of(row),
                           nra_fid |-> points[s.closest].fid,
                           nra_lat |-> points[s.closest].lat,
                           nra_lon |-> points[s.closest].lon,
                           distance_km |-> s.min_distance]>>,
            markers |-> <<Marker("gps", idx, <<q>>, "purple")>>])))

\* lines 134-180, one row
MatchRow ==
  /\ UNCHANGED <<wkt, parsed, geocode_vars>>
  /\ pc = "match"
  /\ j <= Len(df_gps)
  /\ \E r \in {match_row(j, df_gps[j], nra_points)} :
         /\ stdout' = stdout \o r.said
         /\ haversine_calls' = haversine_calls \o r.calls
         /\ results' = results \o r.records
         /\ m' = m \o r.markers
         /\ error' = r.error
         /\ pc' = IF r.kind = "raise" THEN "crashed" ELSE pc
  /\ j' = j + 1
  /\ UNCHANGED <<df, i, nra_points, df_gps, csv_written, csv_rows, map_saved,
                 transform_calls, centroid_calls>>

\* lines 182-183: the loop is over, the records go back to main
MatchDone ==
  /\ UNCHANGED <<wkt, parsed, geocode_vars>>
  /\ pc = "match"
  /\ j > Len(df_gps)
  /\ pc' = "export"
  /\ UNCHANGED <<df, i, nra_points, m, df_gps, j, results, csv_written, csv_rows, map_saved,
                 stdout, transform_calls, centroid_calls, haversine_calls, error>>

\* lines 280-282
ExportCsv ==
  /\ UNCHANGED <<wkt, parsed, geocode_vars>>
  /\ pc = "export"
  /\ csv_written' = TRUE
  /\ csv_rows' = results
  /\ stdout' = Append(stdout, Said("exported", 0))
  /\ pc' = "save"
  /\ UNCHANGED <<df, i, nra_points, m, df_gps, j, results, map_saved,
                 transform_calls, centroid_calls, haversine_calls, error>>

\* lines 285-286
SaveMap ==
  /\ UNCHANGED <<wkt, parsed, geocode_vars>>
  /\ pc = "save"
  /\ map_saved' = TRUE
  /\ stdout' = Append(stdout, Said("saved", 0))
  /\ pc' = "done"
  /\ UNCHANGED <<df, i, nra_points, m, df_gps, j, results, csv_written, csv_rows,
                 transform_calls, centroid_calls, haversine_calls, error>>

Next ==
  \/ ReadNra
  \/ BuildRow
  \/ CheckTable
  \/ DisplayRow
  \/ ReadGps
  \/ MatchRow
  \/ MatchDone
  \/ ExportCsv
  \/ SaveMap

Spec == Init /\ [][Next]_vars

(* ------------------------------------------------------------------ *)
(* The two parsers on their own: parse_point and parse_polygon applied *)
(* to texts put together from fragments, each fragment carrying what   *)
(* it is (a numeral and its value, a separator, a parenthesis)         *)
(* ------------------------------------------------------------------ *)

MaxVertices == 3

\* what stands before the first token
PointHeads ==
  { [t |-> <<"P","O","I","N","T","(">>,   tagged |-> TRUE],
    [t |-> <<" ","P","O","I","N","T","("," ">>, tagged |-> TRUE],
    [t |-> <<"P","O","I","N","T"," ","(">>,  tagged |-> FALSE],
    [t |-> <<"p","o","i","n","t","(">>,   tagged |-> FALSE],
    [t |-> <<"P","T","(">>,      tagged |-> FALSE] }

\* the tokens: numerals with their values, and texts float() rejects
PointTokens ==
  { [t |-> <<"2">>,    numeric |-> TRUE,  v |-> Fin(2, 1)],
    [t |-> <<"-","3",".","5">>, numeric |-> TRUE,  v |-> Fin(-7, 2)],
    [t |-> <<"+","0","7">>,  numeric |-> TRUE,  v |-> Fin(7, 1)],
    [t |-> <<"1","e","2">>,  numeric |-> TRUE,  v |-> Fin(100, 1)],
    [t |-> <<"x">>,    numeric |-> FALSE, v |-> NaN],
    [t |-> <<"2","(","5">>,  numeric |-> FALSE, v |-> NaN] }

\* what stands between the two tokens
PointSeparators ==
  { [t |-> <<" ">>,   blank |-> TRUE],
    [t |-> <<" ", "\t">>, blank |-> TRUE],
    [t |-> <<",">>,   blank |-> FALSE],
    [t |-> <<" ","9"," ">>, blank |-> FALSE] }

\* what stands after the second token: closed says the text ends, after
\* trimming, with a parenthesis; extra counts the parentheses before it
PointTails ==
  { [t |-> <<")">>,  closed |-> TRUE,  extra |-> 0],
    [t |-> <<" ",")"," ">>, closed |-> TRUE,  extra |-> 0],
    [t |-> <<")",")">>, closed |-> TRUE,  extra |-> 1],
    [t |-> <<>>,   closed |-> FALSE, extra |-> 0],
    [t |-> <<")","x">>, closed |-> FALSE, extra |-> 0] }

\* a parenthesis more before the first token, or after it
StrayOpen == {<<>>, <<"(">>}

StrayClose == {<<>>, <<")">>}

PointCells ==
  { [kind |-> "point", head |-> h, open |-> o, a |-> a, close |-> c, sep |-> s, b |-> b, tail |-> t] :
      h \in PointHeads, o \in StrayOpen, a \in PointTokens, c \in StrayClose,
      s \in PointSeparators, b \in PointTokens, t \in PointTails }

PointText(c) == c.head.t \o c.open \o c.a.t \o c.close \o c.sep.t \o c.b.t \o c.tail.t

\* the coordinate pairs of a polygon text, good ones with their values
PolygonPairs ==
  { [t |-> <<"0"," ","0">>,      good |-> TRUE,  x |-> Fin(0, 1),  y |-> Fin(0, 1)],
    [t |-> <<"1","0"," ","0">>,     good |-> TRUE,  x |-> Fin(10, 1), y |-> Fin(0, 1)],
    [t |-> <<" ","4"," "," ","4",".","5"," ">>, good |-> TRUE,  x |-> Fin(4, 1),  y |-> Fin(9, 2)],
    [t |-> <<"x"," ","1">>,      good |-> FALSE, x |-> NaN,        y |-> NaN] }

\* the texts put before ";" + P: semis counts their semicolons. A text with a
\* semicolon of its own is an identifier, a separator and the start of some
\* other geometry text: the separator of S + ";" + P is then not the first one
PolygonPrefixes ==
  { [t |-> <<>>,                    semis |-> 0],
    [t |-> <<"S","R","I","D","=","3","8","5","7">>,           semis |-> 0],
    [t |-> <<" ","s","r","i","d"," ">>,              semis |-> 0],
    [t |-> <<"P","O","L","Y","G","O","N","(","(","1"," ","1">>,        semis |-> 0],
    [t |-> <<"S","R","I","D","=","3","8","5","7",";","S","R","I","D","=","4","3","2","6">>, semis |-> 1],
    [t |-> <<"S","R","I","D","=","1",";","P","O","L","Y","G","O","N","(","(","5"," ","5">>, semis |-> 1] }

Blanks == {<<>>, <<" ">>}

PolygonCells ==
  { [kind |-> "polygon", prefix |-> s, lead |-> l, pairs |-> ps, trail |-> t] :
      s \in PolygonPrefixes, l \in Blanks,
      ps \in SeqsUpTo(PolygonPairs, MaxVertices) \ {<<>>}, t \in Blanks }

\* ",".join of the pairs from the k-th on
RECURSIVE JoinPairs(_, _)
JoinPairs(ps, k) ==
  IF k > Len(ps) THEN <<>>
  ELSE ps[k].t \o (IF k < Len(ps) THEN <<",">> ELSE <<>>) \o JoinPairs(ps, k + 1)

\* the polygon text P, and S + ";" + P
PolygonText(c) == c.lead \o <<"P","O","L","Y","G","O","N","(","(">> \o JoinPairs(c.pairs, 1) \o <<")",")">> \o c.trail

PrefixedText(c) == c.prefix.t \o <<";">> \o PolygonText(c)

ParseInit ==
  /\ pc = "parse"
  /\ df = <<>>
  /\ i = 1
  /\ nra_points = <<>>
  /\ m = <<>>
  /\ df_gps = <<>>
  /\ j = 1
  /\ results = <<>>
  /\ csv_written = FALSE
  /\ csv_rows = <<>>
  /\ map_saved = FALSE
  /\ stdout = <<>>
  /\ transform_calls = <<>>
  /\ centroid_calls = <<>>
  /\ haversine_calls = <<>>
  /\ error = ""
  /\ wkt \in PointCells \cup PolygonCells \cup {[kind |-> "missing"]}
  /\ parsed = NoCell
  /\ geo_df = <<>>
  /\ geo_i = 1
  /\ cache = <<>>
  /\ requests_sent = <<>>
  /\ adresse_postale = <<>>
  /\ geo_saved = FALSE

pipeline_vars ==
  <<df, i, nra_points, m, df_gps, j, results, csv_written, csv_rows, map_saved,
    stdout, transform_calls, centroid_calls, haversine_calls, error>>

\* parse_point(row['the_geom']) for the text of the wkt
ApplyParsePoint ==
  /\ pc = "parse"
  /\ wkt.kind = "point"
  /\ parsed' = [kind |-> "point", point |-> parse_point(Str(PointText(wkt)))]
  /\ pc' = "parsed"
  /\ UNCHANGED <<wkt, pipeline_vars, geocode_vars>>

\* parse_point for a wkt pandas read as NaN
ApplyParsePointMissing ==
  /\ pc = "parse"
  /\ wkt.kind = "missing"
  /\ parsed' = [kind |-> "point", point |-> parse_point(Missing)]
  /\ pc' = "parsed"
  /\ UNCHANGED <<wkt, pipeline_vars, geocode_vars>>

\* parse_polygon for P and for S + ";" + P
ApplyParsePolygon ==
  /\ pc = "parse"
  /\ wkt.kind = "polygon"
  /\ parsed' = [kind     |-> "polygon",
                plain    |-> parse_polygon(Str(PolygonText(wkt))),
                prefixed |-> parse_polygon(Str(PrefixedText(wkt)))]
  /\ pc' = "parsed"
  /\ UNCHANGED <<wkt, pipeline_vars, geocode_vars>>

ParseNext ==
  \/ ApplyParsePoint
  \/ ApplyParsePointMissing
  \/ ApplyParsePolygon

SpecParse == ParseInit /\ [][ParseNext]_vars

(* ------------------------------------------------------------------ *)
(* main.py: reverse geocoding of the rows of a CSV, data.gouv first,   *)
(* Nominatim as the fallback, one cache for the run                    *)
(* ------------------------------------------------------------------ *)

MaxGeoRows == 3

\* the character U+00E9 of the two literals below
EAcute == "e-acute"

\* "Adresse non trouvée" and "Coordonnées invalides"
AdresseNonTrouvee == <<"A","d","r","e","s","s","e"," ","n","o","n"," ","t","r","o","u","v">> \o <<EAcute>> \o <<"e">>

CoordonneesInvalides == <<"C","o","o","r","d","o","n","n">> \o <<EAcute>> \o <<"e","s"," ","i","n","v","a","l","i","d","e","s">>

\* None, and a returned str
NoAddress == [some |-> FALSE, s |-> <<>>]

SomeAddress(s) == [some |-> TRUE, s |-> s]

\* "if address:" is true of a str that is not empty
truthy(address) == address.some /\ address.s # <<>>

\* a key of a JSON object: absent, or present with a text
Absent == [has |-> FALSE, s |-> <<>>]

Text(s) == [has |-> TRUE, s |-> s]

\* dict.get(key, default)
get(field, default) == IF field.has THEN field.s ELSE default

\* what session.get(DATA_GOUV_URL, ...) can come to: a RequestException (the
\* request failed, or raise_for_status raised), or a GeoJSON document with
\* its features. kind says which it is: "error", "empty" (no result),
\* "incomplete" (a result without street, postcode or city), "address"
DgError == [kind |-> "error", ok |-> FALSE, features |-> <<>>]

DgEmpty == [kind |-> "empty", ok |-> TRUE, features |-> <<>>]

DgNumbered ==
  [kind |-> "address", ok |-> TRUE,
   features |-> <<[housenumber |-> Text(<<" ","1","2"," ">>), street |-> Text(<<"R","u","e"," ","A">>),
                   postcode |-> Text(<<"7","5","0","0","1">>), city |-> Text(<<"P","a","r","i","s">>)]>>]

DgStreetOnly ==
  [kind |-> "address", ok |-> TRUE,
   features |-> <<[housenumber |-> Absent, street |-> Text(<<"R","u","e"," ","A">>),
                   postcode |-> Text(<<"7","5","0","0","1">>), city |-> Text(<<"P","a","r","i","s">>)]>>]

DgIncomplete ==
  [kind |-> "incomplete", ok |-> TRUE,
   features |-> <<[housenumber |-> Absent, street |-> Absent,
                   postcode |-> Text(<<"7","5","0","0","1">>), city |-> Text(<<"P","a","r","i","s">>)]>>]

DataGouvResponses == {DgError, DgEmpty, DgNumbered, DgStreetOnly, DgIncomplete}

\* what session.get(NOMINATIM_URL, ...) can come to
OsmError == [kind |-> "error", ok |-> FALSE, has_address |-> FALSE, address |-> <<>>]

OsmEmpty == [kind |-> "empty", ok |-> TRUE, has_address |-> FALSE, address |-> <<>>]

OsmTown ==
  [kind |-> "address", ok |-> TRUE, has_address |-> TRUE,
   address |-> [house_number |-> Text(<<"3">>), road |-> Text(<<"R","u","e"," ","B">>),
                postcode |-> Text(<<"6","9","0","0","1">>), city |-> Absent,
                town |-> Text(<<"L","y","o","n"," ">>), village |-> Absent]]

OsmNumberIsPostcode ==
  [kind |-> "address", ok |-> TRUE, has_address |-> TRUE,
   address |-> [house_number |-> Text(<<"6","9","0","0","1">>), road |-> Text(<<"R","u","e"," ","B">>),
                postcode |-> Text(<<"6","9","0","0","1">>), city |-> Text(<<"L","y","o","n">>),
                town |-> Absent, village |-> Absent]]

OsmNoRoad ==
  [kind |-> "incomplete", ok |-> TRUE, has_address |-> TRUE,
   address |-> [house_number |-> Absent, road |-> Absent,
                postcode |-> Text(<<"6","9","0","0","1">>), city |-> Absent,
                town |-> Absent, village |-> Text(<<"L","y","o","n">>)]]

NominatimResponses == {OsmError, OsmEmpty, OsmTown, OsmNumberIsPostcode, OsmNoRoad}

\* "{street}, {postcode} {city}", with the number in front when there is one
format_address(housenumber, street, postcode, city) ==
  (IF housenumber # <<>> THEN housenumber \o <<" ">> ELSE <<>>)
    \o street \o <<","," ">> \o postcode \o <<" ">> \o city

\* reverse_geocode_data_gouv, given what its session.get came to
reverse_geocode_data_gouv(response) ==
  IF ~response.ok THEN NoAddress
  ELSE IF response.features = <<>> THEN NoAddress
  ELSE LET props       == response.features[1]
           housenumber == strip(get(props.housenumber, <<>>), Whitespace)
           street      == strip(get(props.street, <<>>), Whitespace)
           postcode    == strip(get(props.postcode, <<>>), Whitespace)
           city        == strip(get(props.city, <<>>), Whitespace)
       IN  IF street # <<>> /\ postcode # <<>> /\ city # <<>>
           THEN SomeAddress(format_address(housenumber, street, postcode, city))
           ELSE NoAddress

\* reverse_geocode_osm, given what its session.get came to
reverse_geocode_osm(response) ==
  IF ~response.ok THEN NoAddress
  ELSE IF ~response.has_address THEN NoAddress
  ELSE LET addr        == response.address
           housenumber == strip(get(addr.house_number, <<>>), Whitespace)
           road        == strip(get(addr.road, <<>>), Whitespace)
           postcode    == strip(get(addr.postcode, <<>>), Whitespace)
           city        == strip(get(addr.city, get(addr.town, get(addr.village, <<>>))),
                                Whitespace)
       IN  IF road # <<>> /\ postcode # <<>> /\ city # <<>>
           THEN SomeAddress(format_address(IF housenumber # postcode THEN housenumber ELSE <<>>,
                                           road, postcode, city))
           ELSE NoAddress

\* one session.get as it is kept in requests_sent
Sent(service, coord_key, response, result) ==
  [service |-> service, key |-> coord_key, answer |-> response.kind, result |-> result]

\* "if address:" of line 101 turned round: Nominatim is asked whatever
\* data.gouv returned
fallback_needed_always(address) == TRUE

\* the else of line 105: data.gouv returned nothing
fallback_needed(address) == ~truthy(address)

\* cache[coord_key] = address left out for the failure value
cache_store_found_only(c, coord_key, address) ==
  IF address = AdresseNonTrouvee THEN c ELSE c @@ (coord_key :> address)

\* cache[coord_key] = address
cache_store(c, coord_key, address) == c @@ (coord_key :> address)

\* reverse_geocode(lat, lon, cache), given what the two services would
\* answer: the address returned, the cache after the call, the requests made
reverse_geocode(lat, lon, c, dg_response, osm_response) ==
  LET coord_key == <<lat, lon>>
      first     == reverse_geocode_data_gouv(dg_response)
      second    == reverse_geocode_osm(osm_response)
      address   == IF ~fallback_needed(first) THEN first.s
                   ELSE IF truthy(second) THEN second.s
                   ELSE AdresseNonTrouvee
  IN  IF coord_key \in DOMAIN c
      THEN [address |-> c[coord_key], cache |-> c, sent |-> <<>>]
      ELSE [address |-> address,
            cache   |-> cache_store(c, coord_key, address),
            sent    |-> <<Sent("data.gouv", coord_key, dg_response, first)>>
                          \o (IF fallback_needed(first)
                              THEN <<Sent("nominatim", coord_key, osm_response, second)>>
                              ELSE <<>>)]

\* pd.to_numeric(..., errors="coerce") of a cell read with dtype=str: the
\* number float() reads, except that pandas takes no underscores between
\* digits ("1_0" is coerced to NaN)
to_numeric(cell) ==
  IF ~cell.isStr THEN NaN
  ELSE IF \E k \in 1..Len(cell.s) : cell.s[k] = "_" THEN NaN
  ELSE With(PyFloat(cell.s), LAMBDA f : IF f.ok THEN f.v ELSE NaN)

\* pd.notnull
notnull(v) == v.kind # "nan"

\* rows of the input CSV (Latitude, Longitude)
GeoRowParis == [Latitude |-> Str(<<"4","8",".","8","5">>), Longitude |-> Str(<<"2",".","3","5">>)]

GeoRowParisRewritten == [Latitude |-> Str(<<"4","8",".","8","5","0">>), Longitude |-> Str(<<" ","2",".","3","5">>)]

GeoRowLyon == [Latitude |-> Str(<<"4","5",".","7","5">>), Longitude |-> Str(<<"4",".","8","5">>)]

GeoRowInvalid == [Latitude |-> Str(<<"a","b","c">>), Longitude |-> Missing]

GeoRows == {GeoRowParis, GeoRowParisRewritten, GeoRowLyon, GeoRowInvalid}

GeoFiles ==
  {[status |-> "unreadable", rows |-> <<>>], [status |-> "nocolumn", rows |-> <<>>]}
    \cup {[status |-> "ok", rows |-> rows] : rows \in SeqsUpTo(GeoRows, MaxGeoRows)}

GeocodeInit ==
  /\ pc = "geo_read"
  /\ df = <<>>
  /\ i = 1
  /\ nra_points = <<>>
  /\ m = <<>>
  /\ df_gps = <<>>
  /\ j = 1
  /\ results = <<>>
  /\ csv_written = FALSE
  /\ csv_rows = <<>>
  /\ map_saved = FALSE
  /\ stdout = <<>>
  /\ transform_calls = <<>>
  /\ centroid_calls = <<>>
  /\ haversine_calls = <<>>
  /\ error = ""
  /\ wkt = NoCell
  /\ parsed = NoCell
  /\ geo_df = <<>>
  /\ geo_i = 1
  /\ cache = <<>>
  /\ requests_sent = <<>>
  /\ adresse_postale = <<>>
  /\ geo_saved = FALSE

\* lines 122-135 of process_csv
GeoReadCsv ==
  /\ pc = "geo_read"
  /\ \E file \in GeoFiles :
       IF file.status = "unreadable"
       THEN /\ pc' = "done"
            /\ UNCHANGED <<geo_df, error>>
       ELSE IF file.status = "nocolumn"
       THEN /\ pc' = "crashed"
            /\ error' = "ValueError"
            /\ UNCHANGED geo_df
       ELSE /\ pc' = "geo_loop"
            /\ geo_df' = [k \in 1..Len(file.rows) |->
                            [Latitude  |-> to_numeric(file.rows[k].Latitude),
                             Longitude |-> to_numeric(file.rows[k].Longitude)]]
            /\ UNCHANGED error
  /\ UNCHANGED <<geo_i, cache, requests_sent, adresse_postale, geo_saved,
                 wkt, parsed, df, i, nra_points, m, df_gps, j, results, csv_written,
                 csv_rows, map_saved, stdout, transform_calls, centroid_calls,
                 haversine_calls>>

\* lines 137-143 of process_csv, one row
GeocodeRow ==
  /\ pc = "geo_loop"
  /\ geo_i <= Len(geo_df)
  /\ LET lat == geo_df[geo_i].Latitude
         lon == geo_df[geo_i].Longitude
     IN  IF notnull(lat) /\ notnull(lon)
         THEN \E dg_response \in DataGouvResponses, osm_response \in NominatimResponses :
                \E r \in {reverse_geocode(lat, lon, cache, dg_response, osm_response)} :
                  /\ adresse_postale' = Append(adresse_postale, r.address)
                  /\ cache' = r.cache
                  /\ requests_sent' = requests_sent \o r.sent
         ELSE /\ adresse_postale' = Append(adresse_postale, CoordonneesInvalides)
              /\ UNCHANGED <<cache, requests_sent>>
  /\ geo_i' = geo_i + 1
  /\ UNCHANGED <<pc, geo_df, geo_saved, error,
                 wkt, parsed, df, i, nra_points, m, df_gps, j, results, csv_written,
                 csv_rows, map_saved, stdout, transform_calls, centroid_calls,
                 haversine_calls>>

\* lines 145-149 of process_csv: to_csv succeeds, or fails and is logged
GeoSaveCsv ==
  /\ pc = "geo_loop"
  /\ geo_i > Len(geo_df)
  /\ pc' = "done"
  /\ geo_saved' \in BOOLEAN
  /\ UNCHANGED <<geo_df, geo_i, cache, requests_sent, adresse_postale, error,
                 wkt, parsed, df, i, nra_points, m, df_gps, j, results, csv_written,
                 csv_rows, map_saved, stdout, transform_calls, centroid_calls,
                 haversine_calls>>

GeocodeNext ==
  \/ GeoReadCsv
  \/ GeocodeRow
  \/ GeoSaveCsv

SpecGeocode == GeocodeInit /\ [][GeocodeNext]_vars

(* ------------------------------------------------------------------ *)
(* Properties of table construction                                    *)
(* ------------------------------------------------------------------ *)

\* the number of NRA rows the loop of lines 201-221 has been through
Built == IF pc = "build" THEN i - 1 ELSE Len(df)

\* table construction is under way, or at its end with every row gone through
Building == pc = "build"

\* the anchors of the row with FID k, and the logged calls made for it
AnchorsOf(k) == SelectSeq(nra_points, LAMBDA a : a.fid = k)

BuildCalls(log, k) == SelectSeq(log, LAMBDA c : c.phase = "build" /\ c.fid = k)

\* the anchor a raw point gives: none when parse_point returned None
PointDerived(pt, k) ==
  IF pt.some THEN <<Anchor(transform_point(pt.x, pt.y), k)>> ELSE <<>>

\* the anchor the centroid of a polygon gives
CentroidDerived(poly, k) ==
  LET c == polygon_centroid(poly)
  IN  <<Anchor(transform_point(c[1], c[2]), k)>>

\* C1: every row of the NRA table that has been through table construction
\* contributes at most one anchor, from exactly one geometry: the centroid of
\* its polygon whenever parse_polygon yields a polygon whose centroid
\* computation succeeds, otherwise its raw point when parse_point returns
\* one, otherwise nothing; the anchors stand in the order of their rows.
C1_OneAnchorPerRow ==
  Building =>
    /\ \A k \in 1..Built :
         LET poly == parse_polygon(df[k].osm_original_geom)
         IN  /\ Len(AnchorsOf(k)) <= 1
             /\ Len(BuildCalls(transform_calls, k)) = Len(AnchorsOf(k))
             /\ IF poly # <<>> /\ ~PolygonRaises(poly)
                THEN /\ AnchorsOf(k) = CentroidDerived(poly, k)
                     /\ Len(BuildCalls(centroid_calls, k)) = 1
                ELSE /\ AnchorsOf(k) = PointDerived(parse_point(df[k].the_geom), k)
                     /\ BuildCalls(centroid_calls, k) = <<>>
    /\ \A a \in 1..Len(nra_points) :
         /\ nra_points[a].fid \in 1..Built
         /\ \A b \in 1..Len(nra_points) : a < b => nra_points[a].fid < nra_points[b].fid

\* table construction has ended: a row with the point POINT(2 3) and no
\* polygon has given the table the projection of (2, 3), and a row with a
\* square polygon the projection of the square's centroid although the row
\* has a point as well
C1_Witness ==
  /\ Building /\ i > Len(df)
  /\ \E k \in 1..Len(df) :
       /\ df[k].osm_original_geom = Str(<<>>)
       /\ df[k].the_geom = Str(<<"P","O","I","N","T","(","2"," ","3",")">>)
       /\ AnchorsOf(k) = <<Anchor(transform_point(Fin(2, 1), Fin(3, 1)), k)>>
  /\ \E k \in 1..Len(df) :
       /\ df[k].osm_original_geom = NraRowSquare.osm_original_geom
       /\ df[k].the_geom = Str(<<"P","O","I","N","T","(","2"," ","3",")">>)
       /\ AnchorsOf(k) = <<Anchor(transform_point(Fin(5, 1), Fin(5, 1)), k)>>

\* every triple of vertices of the ring is collinear: the ring has no area
\* (fewer than three distinct vertices, or all of them on one line)
ZeroArea(poly) ==
  LET L == CommonDen(poly)
      X(k) == poly[k][1].n * (L \div poly[k][1].d)
      Y(k) == poly[k][2].n * (L \div poly[k][2].d)
  IN  \A a, b, c \in 1..Len(poly) :
        (X(b) - X(a)) * (Y(c) - Y(a)) = (Y(b) - Y(a)) * (X(c) - X(a))

Degenerate(poly) == poly # <<>> /\ ZeroArea(poly)

\* C9 as the specification states it: a row whose polygon is degenerate
\* (zero area: fewer than three distinct vertices, or collinear) never gets
\* its anchor from the polygon; its centroid is not computed and the anchor
\* is the one of the raw point, when there is one.
C9_DegenerateFallsBack ==
  Building =>
    \A k \in 1..Built :
      Degenerate(parse_polygon(df[k].osm_original_geom)) =>
        /\ BuildCalls(centroid_calls, k) = <<>>
        /\ AnchorsOf(k) = PointDerived(parse_point(df[k].the_geom), k)

\* the ring has fewer than 4 coordinates once closed: one or two coordinate
\* tuples (three are always closed by a fourth)
TooFewCoordinates(poly) == Len(poly) < 3

\* C9: a row whose polygon has one or two parsed coordinate tuples fails in
\* the centroid computation, the failure is reported, and the row's anchor is
\* the one of its raw point; a zero-area polygon of three or more tuples does
\* not fail: the row's anchor is the projection of the centroid the geometry
\* library gives for it (the point (5, 5) for the collinear ring
\* (0 0, 4 4, 10 10) and for the closed ring (0 0, 10 10, 0 0)), whatever the
\* row's raw point is.
C9_TooFewCoordinatesFallBack ==
  Building =>
    \A k \in 1..Built :
      LET poly == parse_polygon(df[k].osm_original_geom)
      IN  Degenerate(poly) =>
            IF TooFewCoordinates(poly)
            THEN /\ BuildCalls(centroid_calls, k) = <<>>
                 /\ AnchorsOf(k) = PointDerived(parse_point(df[k].the_geom), k)
                 /\ \E s \in 1..Len(stdout) : stdout[s] = Said("centroid", k)
            ELSE /\ Len(BuildCalls(centroid_calls, k)) = 1
                 /\ AnchorsOf(k) = CentroidDerived(poly, k)
                 /\ \A s \in 1..Len(stdout) : stdout[s] # Said("centroid", k)
                 /\ poly \in {<<<<Fin(0, 1), Fin(0, 1)>>, <<Fin(4, 1), Fin(4, 1)>>,
                                <<Fin(10, 1), Fin(10, 1)>>>>,
                              <<<<Fin(0, 1), Fin(0, 1)>>, <<Fin(10, 1), Fin(10, 1)>>,
                                <<Fin(0, 1), Fin(0, 1)>>>>}
                      => AnchorsOf(k) = <<Anchor(transform_point(Fin(5, 1), Fin(5, 1)), k)>>

\* the table has been built from a row with a two-vertex polygon, which fell
\* back to POINT(8 1), and a row with the closed ring (0 0, 10 10, 0 0), which
\* did not fall back to its POINT(2 3)
C9_Witness ==
  /\ Building /\ i > Len(df)
  /\ \E k \in 1..Len(df) :
       /\ Len(parse_polygon(df[k].osm_original_geom)) = 2
       /\ AnchorsOf(k) = <<Anchor(transform_point(Fin(8, 1), Fin(1, 1)), k)>>
       /\ \E s \in 1..Len(stdout) : stdout[s] = Said("centroid", k)
  /\ \E k \in 1..Len(df) :
       /\ df[k].osm_original_geom = Str(<<"P","O","L","Y","G","O","N","(","(","0"," ","0",",","1","0"," ","1","0",",","0"," ","0",")",")">>)
       /\ df[k].the_geom = Str(<<"P","O","I","N","T","(","2"," ","3",")">>)
       /\ AnchorsOf(k) = <<Anchor(transform_point(Fin(5, 1), Fin(5, 1)), k)>>

\* C10: for every anchor taken from a polygon, the centroid is computed once,
\* on the polygon's coordinates as parse_polygon returned them (unprojected),
\* and the transformer is called once, on that centroid; the anchor is what
\* that call returned. For the square (0 0, 10 0, 10 10, 0 10) the call is
\* made on (5, 5).
C10_CentroidThenProject ==
  Building =>
    \A k \in 1..Built :
      BuildCalls(centroid_calls, k) # <<>> =>
        LET raw == parse_polygon(df[k].osm_original_geom)
            c   == polygon_centroid(raw)
        IN  /\ BuildCalls(centroid_calls, k)
                 = <<[phase |-> "build", fid |-> k, coords |-> raw]>>
            /\ BuildCalls(transform_calls, k)
                 = <<[phase |-> "build", fid |-> k, x |-> c[1], y |-> c[2]]>>
            /\ AnchorsOf(k) = <<Anchor(transform_point(c[1], c[2]), k)>>
            /\ df[k].osm_original_geom = NraRowSquare.osm_original_geom
                 => c = <<Fin(5, 1), Fin(5, 1)>>

\* the square has been through table construction: one centroid, of its four
\* vertices as written in the file, and one transformer call, on (5, 5)
C10_Witness ==
  /\ Building /\ i > Len(df)
  /\ \E k \in 1..Len(df) :
       /\ df[k].osm_original_geom = NraRowSquare.osm_original_geom
       /\ Len(BuildCalls(centroid_calls, k)) = 1
       /\ Len(BuildCalls(centroid_calls, k)[1].coords) = 4
       /\ BuildCalls(transform_calls, k)
            = <<[phase |-> "build", fid |-> k, x |-> Fin(5, 1), y |-> Fin(5, 1)]>>

\* C11 as the specification states it: table construction never ends in an
\* exception, and every row gone through it that gave no anchor (polygon and
\* point both failed) has a diagnostic of its own in what was printed.
C11_DroppedRowIsLogged ==
  Building =>
    /\ error = ""
    /\ \A k \in 1..Built :
         AnchorsOf(k) = <<>> =>
           \E s \in 1..Len(stdout) :
             stdout[s].id = k /\ stdout[s].msg \in {"centroid", "conversion"}

\* C6: when table construction ends with no anchor, the run ends there with
\* the "no valid point" message and without an exception: no GPS file is
\* read, haversine_distance is never called, no record, no CSV file and no
\* map come out. Matching, the CSV file and the map are only ever reached
\* with at least one anchor in the table.
C6_EmptyTableFailsFast ==
  /\ [](pc \in {"match", "export", "save"} \/ csv_written \/ map_saved
          \/ haversine_calls # <<>> \/ results # <<>>
        => Len(nra_points) >= 1)
  /\ [][(pc = "build" /\ i > Len(df) /\ nra_points = <<>>)
          => /\ pc' = "done"
             /\ error' = ""
             /\ stdout' = Append(stdout, Said("novalid", 0))
             /\ df_gps' = <<>>
             /\ haversine_calls' = <<>>
             /\ results' = <<>>
             /\ ~csv_written' /\ ~map_saved' /\ m' = <<>>]_vars

\* a table of two rows that gave no anchor has ended the run
C6_Witness ==
  /\ pc = "done"
  /\ Len(df) = 2
  /\ nra_points = <<>>
  /\ stdout # <<>> /\ stdout[Len(stdout)] = Said("novalid", 0)
  /\ ~csv_written /\ ~map_saved

(* ------------------------------------------------------------------ *)
(* Properties of matching                                              *)
(* ------------------------------------------------------------------ *)

\* the distance from the query of record r to the k-th anchor
DistanceTo(r, k) ==
  haversine_distance(r.fiab_lat, r.fiab_lon, nra_points[k].lat, nra_points[k].lon)

\* the anchors the record r names
Named(r) ==
  { k \in 1..Len(nra_points) :
      /\ nra_points[k].fid = r.nra_fid
      /\ nra_points[k].lat = r.nra_lat
      /\ nra_points[k].lon = r.nra_lon }

\* C2: the distance of every record is the minimum of the haversine distance
\* from its query row to the anchors of the table: it is not negative, no
\* anchor is nearer, and the anchor the record names is at that distance.
C2_DistanceIsMinimum ==
  \A n \in 1..Len(results) :
    LET r == results[n]
    IN  /\ r.distance_km >= 0
        /\ \A k \in 1..Len(nra_points) : r.distance_km <= DistanceTo(r, k)
        /\ \E k \in Named(r) : DistanceTo(r, k) = r.distance_km

\* a record names the second anchor of the table, which is nearer to the
\* query than the first
C2_Witness ==
  \E n \in 1..Len(results) :
    /\ Len(nra_points) = 2
    /\ results[n].nra_fid = nra_points[2].fid
    /\ DistanceTo(results[n], 1) > results[n].distance_km
    /\ results[n].distance_km > 0

\* C3: among the anchors at the minimum distance from a query row, the record
\* names the one that comes first in the table; two query rows with the same
\* coordinates get the same anchor.
C3_FirstNearestWins ==
  /\ \A n \in 1..Len(results) :
       LET r     == results[n]
           first == CHOOSE k \in 1..Len(nra_points) :
                      /\ \A l \in 1..Len(nra_points) : DistanceTo(r, k) <= DistanceTo(r, l)
                      /\ \A l \in 1..(k - 1) : DistanceTo(r, l) > DistanceTo(r, k)
       IN  /\ r.nra_fid = nra_points[first].fid
           /\ r.nra_lat = nra_points[first].lat
           /\ r.nra_lon = nra_points[first].lon
  /\ \A n1, n2 \in 1..Len(results) :
       (results[n1].fiab_lat = results[n2].fiab_lat
          /\ results[n1].fiab_lon = results[n2].fiab_lon)
       => results[n1].nra_fid = results[n2].nra_fid

\* two anchors are at the same, minimal distance from a query and the record
\* names the first of them; two rows with that query have been matched
C3_Witness ==
  /\ Len(nra_points) = 2
  /\ Len(results) = 2
  /\ DistanceTo(results[1], 1) = DistanceTo(results[1], 2)
  /\ results[1].nra_fid = nra_points[1].fid
  /\ results[1].fiab_lat = results[2].fiab_lat
  /\ results[1].fiab_lon = results[2].fiab_lon
  /\ results[2].nra_fid = nra_points[1].fid

\* the number of GPS rows the loop of lines 134-180 has been through; the
\* row an exception ended the loop at is one of them
Processed == IF pc \in {"match", "crashed"} THEN j - 1 ELSE Len(df_gps)

RecordsOf(k) == SelectSeq(results, LAMBDA r : r.fiab_index = k)

\* both coordinates convert to a float and neither is NaN
ValidQuery(row) ==
  LET lat == cell_float(row.Latitude)
      lon == cell_float(row.Longitude)
  IN  lat.ok /\ lon.ok /\ lat.v.kind # "nan" /\ lon.v.kind # "nan"

\* a coordinate converts to NaN, +inf or -inf
NonFiniteQuery(row) ==
  LET lat == cell_float(row.Latitude)
      lon == cell_float(row.Longitude)
  IN  \/ lat.ok /\ lat.v.kind # "fin"
      \/ lon.ok /\ lon.v.kind # "fin"

\* C4 as the specification states it: with a non-empty table, every GPS row
\* the loop has been through has exactly one record if both its coordinates
\* convert to a float and neither is NaN, and no record otherwise; no row
\* ends the loop with an exception.
C4_OneRecordPerValidRow ==
  /\ \A k \in 1..Processed :
       Len(RecordsOf(k)) = IF ValidQuery(df_gps[k]) THEN 1 ELSE 0
  /\ error \notin {"ValueError", "TypeError"}

\* C5 as the specification states it: a GPS row with a coordinate that is
\* NaN, +inf or -inf is dropped before matching: no distance is computed for
\* it, it has no record, and the run goes on to the next row.
C5_NonFiniteDropped ==
  \A k \in 1..Processed :
    NonFiniteQuery(df_gps[k]) =>
      /\ RecordsOf(k) = <<>>
      /\ \A h \in 1..Len(haversine_calls) : haversine_calls[h].idx # k
      /\ ~(pc = "crashed" /\ j - 1 = k)

(* ------------------------------------------------------------------ *)
(* Properties of the parsers                                           *)
(* ------------------------------------------------------------------ *)

\* the text is "POINT(", two tokens apart by whitespace, ")" and nothing else
\* but whitespace around them
PointShaped(c) == c.head.tagged /\ c.sep.blank /\ c.tail.closed

\* no parenthesis but the two of the form
NoStrayParenthesis(c) == c.open = <<>> /\ c.close = <<>> /\ c.tail.extra = 0

\* C7 as the specification states it: parse_point returns the pair (x, y),
\* both as floats, exactly for a text that after trimming is POINT(<x> <y>)
\* with two numeric tokens apart by whitespace, and None for every other
\* input.
C7_ExactlyTheForm ==
  pc = "parsed" /\ parsed.kind = "point" =>
    IF wkt.kind = "point" /\ PointShaped(wkt) /\ NoStrayParenthesis(wkt)
         /\ wkt.a.numeric /\ wkt.b.numeric
    THEN parsed.point = SomePoint(wkt.a.v, wkt.b.v)
    ELSE parsed.point = NoPoint

\* C7: parse_point returns the pair (x, y), both as floats, exactly for a
\* text that after trimming starts with "POINT(" and ends with ")", with two
\* tokens apart by whitespace in between that are numeric once the
\* parentheses at their ends are taken off: POINT((4 6)), POINT(2) 3) and
\* POINT(2 3)) give a pair as POINT(2 3) does. Every other input gives None:
\* a value that is not a string, another tag, a missing ")", one token or
\* three, a token float() rejects.
C7_TheFormUpToParentheses ==
  pc = "parsed" /\ parsed.kind = "point" =>
    IF wkt.kind = "point" /\ PointShaped(wkt) /\ wkt.a.numeric /\ wkt.b.numeric
    THEN parsed.point = SomePoint(wkt.a.v, wkt.b.v)
    ELSE parsed.point = NoPoint

\* parse_point has returned (2, -3.5) for "POINT((2 -3.5))"
C7_Witness ==
  /\ pc = "parsed"
  /\ wkt.kind = "point"
  /\ PointText(wkt) = <<"P","O","I","N","T","(","(","2"," ","-","3",".","5",")",")">>
  /\ parsed.point = SomePoint(Fin(2, 1), Fin(-7, 2))

\* the values of the good pairs of the text, in order
RECURSIVE GoodPairs(_, _)
GoodPairs(ps, k) ==
  IF k > Len(ps) THEN <<>>
  ELSE (IF ps[k].good THEN <<<<ps[k].x, ps[k].y>>>> ELSE <<>>) \o GoodPairs(ps, k + 1)

\* C8: for every polygon text P and every coordinate-system prefix S (a text
\* separated from P by ";", so one without a semicolon of its own: an
\* identifier, blanks, nothing or any other text, none of it validated),
\* parse_polygon(S + ";" + P) is parse_polygon(P), the good coordinate pairs
\* of P in order. The separator is the first semicolon of the text: when the
\* text before P holds one itself, what follows it is parsed in place of P,
\* which gives no pair for "SRID=3857;SRID=4326" and the pairs of P after its
\* first for "SRID=1;POLYGON((5 5" (the first is merged into a group of more
\* than two tokens and skipped).
C8_PrefixToFirstSemicolonStripped ==
  pc = "parsed" /\ parsed.kind = "polygon" =>
    /\ parsed.plain = GoodPairs(wkt.pairs, 1)
    /\ wkt.prefix.semis = 0 => parsed.prefixed = parsed.plain
    /\ wkt.prefix.t = <<"S","R","I","D","=","3","8","5","7",";","S","R","I","D","=","4","3","2","6">> => parsed.prefixed = <<>>
    /\ wkt.prefix.t = <<"S","R","I","D","=","1",";","P","O","L","Y","G","O","N","(","(","5"," ","5">> =>
         parsed.prefixed = GoodPairs(wkt.pairs, 2)

\* parse_polygon has returned the same three pairs for " POLYGON((...))" and
\* for "SRID=3857; POLYGON((...))"
C8_Witness ==
  /\ pc = "parsed"
  /\ wkt.kind = "polygon"
  /\ wkt.prefix.t = <<"S","R","I","D","=","3","8","5","7">>
  /\ wkt.lead = <<" ">>
  /\ Len(parsed.plain) = 3
  /\ parsed.prefixed = parsed.plain

(* ------------------------------------------------------------------ *)
(* Properties of reverse geocoding (main.py)                           *)
(* ------------------------------------------------------------------ *)

\* the key of the k-th row of the table, and whether the row is geocoded
KeyOf(k) == <<geo_df[k].Latitude, geo_df[k].Longitude>>

Geocoded(k) == notnull(geo_df[k].Latitude) /\ notnull(geo_df[k].Longitude)

\* the requests made for a key, in the order they were made
RequestsFor(coord_key) == SelectSeq(requests_sent, LAMBDA r : r.key = coord_key)

\* C12: over the calls of one run, which share one cache, each service is
\* asked at most once for a key; once a row with a key has been geocoded the
\* key is in the cache, and every row with that key has the address the
\* cache holds for it, the one of the first call, "Adresse non trouvée"
\* included: a lookup that failed is not made again.
C12_OneLookupPerKey ==
  /\ \A a, b \in 1..Len(requests_sent) :
       (requests_sent[a].key = requests_sent[b].key
          /\ requests_sent[a].service = requests_sent[b].service) => a = b
  /\ \A r \in 1..Len(requests_sent) : requests_sent[r].key \in DOMAIN cache
  /\ \A k \in 1..Len(adresse_postale) :
       Geocoded(k) =>
         /\ KeyOf(k) \in DOMAIN cache
         /\ adresse_postale[k] = cache[KeyOf(k)]

\* three rows with one key have been geocoded; the first lookup failed at
\* both services, the two calls after it made no request and returned the
\* failure value too
C12_Witness ==
  /\ Len(adresse_postale) = 3
  /\ \A k \in 1..3 : Geocoded(k) /\ KeyOf(k) = KeyOf(1)
  /\ \A k \in 1..3 : adresse_postale[k] = AdresseNonTrouvee
  /\ Len(requests_sent) = 2

\* C13: for every key looked up, data.gouv is asked first; Nominatim is
\* asked after it if and only if data.gouv gave no address (its request
\* failed, it had no result, or its result was incomplete); the address kept
\* for the key is the one of data.gouv, else the one of Nominatim, else
\* "Adresse non trouvée", and no row is left without a value.
C13_FallbackOrder ==
  /\ \A coord_key \in DOMAIN cache :
       LET rs == RequestsFor(coord_key)
       IN  /\ rs # <<>>
           /\ rs[1].service = "data.gouv"
           /\ rs[1].answer = "address" <=> truthy(rs[1].result)
           /\ IF rs[1].answer = "address"
              THEN /\ Len(rs) = 1
                   /\ cache[coord_key] = rs[1].result.s
              ELSE /\ rs[1].answer \in {"error", "empty", "incomplete"}
                   /\ Len(rs) = 2
                   /\ rs[2].service = "nominatim"
                   /\ cache[coord_key] = IF rs[2].answer = "address"
                                         THEN rs[2].result.s
                                         ELSE AdresseNonTrouvee
           /\ cache[coord_key] # <<>>
  /\ \A k \in 1..Len(adresse_postale) : adresse_postale[k] # <<>>

\* one key was answered by data.gouv alone, another by Nominatim after
\* data.gouv had an incomplete result
C13_Witness ==
  /\ \E coord_key \in DOMAIN cache :
       /\ Len(RequestsFor(coord_key)) = 1
       /\ cache[coord_key] = <<"1","2"," ","R","u","e"," ","A",","," ","7","5","0","0","1"," ","P","a","r","i","s">>
  /\ \E coord_key \in DOMAIN cache :
       /\ Len(RequestsFor(coord_key)) = 2
       /\ RequestsFor(coord_key)[1].answer = "incomplete"
       /\ RequestsFor(coord_key)[2].service = "nominatim"
       /\ cache[coord_key] = <<"3"," ","R","u","e"," ","B",","," ","6","9","0","0","1"," ","L","y","o","n">>
====
